---- MODULE Spec2Model ----
(***************************************************************************)
(* Negotiation-briefing pipeline: the ProgressTracker broadcaster          *)
(* (services/progress_tracker.py), the LangGraph workflow over             *)
(* NegotiationState (agents/graph.py, agents/state.py, agents/*.py) and    *)
(* the job runner (services/mas_pipeline.py, api/routes.py).               *)
(*                                                                         *)
(* Floats are kept as integer hundredths: progress 0.35 is 35, 1.0 is 100. *)
(***************************************************************************)
EXTENDS Integers, Sequences, FiniteSets, TLC

VARIABLES
    subscribers,  \* ProgressTracker.subscribers: job_id -> list of queues (a defaultdict: keys come and go)
    queues,       \* the asyncio.Queue objects created so far: queue id -> items waiting in it
    pubcount,     \* history: the number of publish() calls so far
    sublog,       \* history: per queue, the job it subscribed to and the publish counts at subscribe / unsubscribe
    published,    \* history (broadcaster on its own): every publish() call so far, as [job, ev]
    delivered,    \* history (broadcaster on its own): per queue, every item ever put into it
    pubsum,       \* history (pipeline): how many error-status, terminal and progress-1.0 events were published
    steplog,      \* history (pipeline): per event source, the status of its first and of its latest event
    seen,         \* history: per stream, a summary of the events it has sent on (and, for the
                  \* relay on its own, the list of everything it sent)
    entry,        \* how the job was started: "wrapper", "direct" or "graph"
    doc,          \* what documents_store holds for the job's document_id
    inp,          \* the inputs handed to the graph
    px,           \* one perplexity_search call: its arguments, where its loop is, what it returned
    md,           \* one merge_dicts call: its arguments and what it returned
    calls,        \* history: per node, how its web research and its LLM call came out
                  \* (kept only where the outcomes are followed)
    rpc,          \* where the job runner is: "call", "await", "done"
    gstat,        \* the graph run: "idle", "running", "finished", "raised"
    active,       \* the nodes of the current superstep
    npc,          \* where each node function is
    upd,          \* what each node function returned
    chan,         \* the NegotiationState channels that hold a value
    briefings_store  \* routes.briefings_store: job_id -> record

trackerVars == <<subscribers, queues, pubcount, sublog, published, delivered, pubsum, steplog, seen>>
pipelineVars == <<entry, doc, inp, px, md, calls, rpc, gstat, active, npc, upd, chan, briefings_store>>
vars == <<subscribers, queues, pubcount, sublog, published, delivered, pubsum, steplog, seen,
          entry, doc, inp, px, md, calls, rpc, gstat, active, npc, upd, chan, briefings_store>>

(***************************************************************************)
(* Bounds                                                                  *)
(***************************************************************************)
MaxQueues == 2      \* subscribe() calls in one run of the broadcaster on its own
MaxPublish == 2     \* publish() calls in one run of the broadcaster on its own
MaxStreams == 1     \* progress streams opened on the job while the pipeline runs
MaxBacklog == 1     \* events a stream may have waiting when the pipeline takes its next step

NoEnd == 0 - 1      \* sublog[q].to while q has not been unsubscribed

Jobs == {"jobX", "jobY"}
QueueIds == 1..MaxQueues

Event(agent, status, progress) == [agent |-> agent, status |-> status, progress |-> progress]

\* the `agent` values of the events the pipeline publishes
EventSources == {"system", "parse", "supplier_summary", "market_analysis", "offer_analysis",
                 "outcome_assessment", "action_items"}

\* events the broadcaster is exercised with on its own
TrackerEvents == {Event("system", "running", 0)}

(***************************************************************************)
(* Helpers over Python lists                                               *)
(***************************************************************************)
Range(s) == {s[i] : i \in DOMAIN s}

\* list.remove(x): drops the first element equal to x (the caller has checked x is in s)
RECURSIVE RemoveFirst(_, _)
RemoveFirst(s, x) ==
    IF s = <<>> THEN <<>>
    ELSE IF Head(s) = x THEN Tail(s)
    ELSE <<Head(s)>> \o RemoveFirst(Tail(s), x)

\* dict with key k set to v / with key k deleted
DictSet(d, k, v) == [x \in (DOMAIN d) \cup {k} |-> IF x = k THEN v ELSE d[x]]
DictDel(d, k) == [x \in (DOMAIN d) \ {k} |-> d[x]]

(***************************************************************************)
(* ProgressTracker                                                         *)
(***************************************************************************)
\* for queue in self.subscribers[job_id]: await queue.put(event)
\* (asyncio.Queue() is unbounded, so put never waits and never raises)
RECURSIVE PutAll(_, _, _)
PutAll(qs, list, item) ==
    IF list = <<>> THEN qs
    ELSE PutAll([qs EXCEPT ![Head(list)] = Append(@, item)], Tail(list), item)

\* publish without the membership test: subscripting the defaultdict creates the key
publish_nocheck(T, job_id, item) ==
    [subscribers |-> IF job_id \in DOMAIN T.subscribers THEN T.subscribers
                     ELSE DictSet(T.subscribers, job_id, <<>>),
     queues |-> IF job_id \in DOMAIN T.subscribers
                THEN PutAll(T.queues, T.subscribers[job_id], item) ELSE T.queues]

\* publish that sends to every queue of every job
publish_broadcast(T, job_id, item) ==
    [subscribers |-> T.subscribers,
     queues |-> [q \in DOMAIN T.queues |->
                    IF \E j \in DOMAIN T.subscribers : q \in Range(T.subscribers[j])
                    THEN Append(T.queues[q], item) ELSE T.queues[q]]]

\* publish over queues of capacity 1: put waits on a full queue, so the call stops at
\* the first queue that still holds an item and the queues after it get nothing
RECURSIVE PutUntilFull(_, _, _)
PutUntilFull(qs, list, item) ==
    IF list = <<>> THEN qs
    ELSE IF qs[Head(list)] # <<>> THEN qs
    ELSE PutUntilFull([qs EXCEPT ![Head(list)] = Append(@, item)], Tail(list), item)

publish_bounded(T, job_id, item) ==
    IF job_id \in DOMAIN T.subscribers
    THEN [subscribers |-> T.subscribers,
          queues |-> PutUntilFull(T.queues, T.subscribers[job_id], item)]
    ELSE T

\* publish that stops after the first queue of the job
publish_first_only(T, job_id, item) ==
    IF job_id \in DOMAIN T.subscribers
    THEN [subscribers |-> T.subscribers,
          queues |-> PutAll(T.queues, <<Head(T.subscribers[job_id])>>, item)]
    ELSE T

\* ProgressTracker.publish(job_id, event) on tracker state T = [subscribers, queues]
publish(T, job_id, item) ==
    IF job_id \in DOMAIN T.subscribers
    THEN [subscribers |-> T.subscribers,
          queues |-> PutAll(T.queues, T.subscribers[job_id], item)]
    ELSE T

\* ProgressTracker.subscribe(job_id): q is the new asyncio.Queue
subscribe(T, job_id, q) ==
    [subscribers |-> IF job_id \in DOMAIN T.subscribers
                     THEN [T.subscribers EXCEPT ![job_id] = Append(@, q)]
                     ELSE DictSet(T.subscribers, job_id, <<q>>),
     queues |-> DictSet(T.queues, q, <<>>)]

\* unsubscribe without the clean-up of lines 59-60: the job keeps an empty list
unsubscribe_keep_empty(T, job_id, q) ==
    IF job_id \in DOMAIN T.subscribers /\ q \in Range(T.subscribers[job_id])
    THEN [subscribers |-> [T.subscribers EXCEPT ![job_id] = RemoveFirst(@, q)],
          queues |-> T.queues]
    ELSE T

\* ProgressTracker.unsubscribe(job_id, queue)
unsubscribe(T, job_id, q) ==
    IF job_id \in DOMAIN T.subscribers
    THEN IF q \in Range(T.subscribers[job_id])
         THEN LET rest == RemoveFirst(T.subscribers[job_id], q) IN
              [subscribers |-> IF rest = <<>> THEN DictDel(T.subscribers, job_id)
                               ELSE [T.subscribers EXCEPT ![job_id] = rest],
               queues |-> T.queues]
         ELSE T      \* ValueError: queue already removed
    ELSE T

Tracker == [subscribers |-> subscribers, queues |-> queues]

\* the items a step added at the tail of each queue
NewItems(qsOld, qsNew, q) ==
    IF q \in DOMAIN qsOld
    THEN SubSeq(qsNew[q], Len(qsOld[q]) + 1, Len(qsNew[q]))
    ELSE qsNew[q]

\* a relay that goes on after an event of status "error"
IsTerminal_progress_only(ev) == ev.progress = 100

\* routes.py line 208: event.get("progress") == 1.0 or event.get("status") == "error"
IsTerminal(ev) == ev.progress = 100 \/ ev.status = "error"

Live(q) == q \in DOMAIN sublog /\ sublog[q].to = NoEnd

\* consecutive publish() calls with no suspension point between them; each item
\* carries the call's number and the job it was published for
RECURSIVE PublishSeq(_, _, _, _)
PublishSeq(T, n, job_id, evs) ==
    IF evs = <<>> THEN T
    ELSE PublishSeq(publish(T, job_id, [n |-> n + 1, job |-> job_id, ev |-> Head(evs)]),
                    n + 1, job_id, Tail(evs))

\* publish() calls made by the pipeline, with their bookkeeping
DoPublishSeq(job_id, evs) ==
    LET T2 == PublishSeq(Tracker, pubcount, job_id, evs) IN
    /\ \A q \in DOMAIN queues : Live(q) => Len(queues[q]) <= MaxBacklog
    /\ subscribers' = T2.subscribers
    /\ queues' = T2.queues
    /\ pubcount' = pubcount + Len(evs)
    /\ pubsum' = [errors |-> pubsum.errors + Cardinality({i \in DOMAIN evs : evs[i].status = "error"}),
                  terminal |-> pubsum.terminal + Cardinality({i \in DOMAIN evs : IsTerminal(evs[i])}),
                  full |-> pubsum.full + Cardinality({i \in DOMAIN evs : evs[i].progress = 100})]
    /\ steplog' = [a \in DOMAIN steplog |->
                      LET mine == SelectSeq(evs, LAMBDA e : e.agent = a) IN
                      IF mine = <<>> THEN steplog[a]
                      ELSE [first |-> IF steplog[a].first = "" THEN Head(mine).status
                                      ELSE steplog[a].first,
                            last |-> mine[Len(mine)].status]]
    /\ UNCHANGED <<sublog, published, delivered, seen>>

DoPublish(job_id, ev) == DoPublishSeq(job_id, <<ev>>)

\* at: the publish count the history notes for the call (0 where no property reads it)
DoSubscribe(job_id, max, at) ==
    /\ Cardinality(DOMAIN queues) < max
    /\ LET q == Cardinality(DOMAIN queues) + 1
           T2 == subscribe(Tracker, job_id, q)
       IN /\ subscribers' = T2.subscribers
          /\ queues' = T2.queues
          /\ sublog' = DictSet(sublog, q, [job |-> job_id, from |-> at, to |-> NoEnd])
          /\ delivered' = DictSet(delivered, q, <<>>)
          /\ seen' = DictSet(seen, q, [count |-> 0, last |-> 0, decreased |-> FALSE, ended |-> FALSE, log |-> <<>>])
          /\ UNCHANGED <<pubcount, published, pubsum, steplog>>

DoUnsubscribe(job_id, q, at) ==
    LET T2 == unsubscribe(Tracker, job_id, q) IN
    /\ subscribers' = T2.subscribers
    /\ queues' = T2.queues
    /\ sublog' = IF sublog[q].job = job_id /\ sublog[q].to = NoEnd
                 THEN [sublog EXCEPT ![q].to = at]
                 ELSE sublog
    /\ UNCHANGED <<pubcount, published, delivered, pubsum, steplog, seen>>

TrackerInit ==
    /\ subscribers = [j \in {} |-> <<>>]
    /\ queues = [q \in {} |-> <<>>]
    /\ pubcount = 0
    /\ sublog = [q \in {} |-> <<>>]
    /\ published = <<>>
    /\ delivered = [q \in {} |-> <<>>]
    /\ pubsum = [errors |-> 0, terminal |-> 0, full |-> 0]
    /\ steplog = [a \in EventSources |-> [first |-> "", last |-> ""]]
    /\ seen = [q \in {} |-> <<>>]

(***************************************************************************)
(* The broadcaster on its own: any interleaving of publish, subscribe,     *)
(* unsubscribe and get calls over two jobs.                                *)
(***************************************************************************)
TPublish == \E j \in Jobs, e \in TrackerEvents :
    /\ pubcount < MaxPublish
    /\ LET item == [n |-> pubcount + 1, job |-> j, ev |-> e]
           T2 == publish(Tracker, j, item)
       IN /\ subscribers' = T2.subscribers
          /\ queues' = T2.queues
          /\ pubcount' = pubcount + 1
          /\ published' = Append(published, [job |-> j, ev |-> e])
          /\ delivered' = [q \in DOMAIN delivered |-> delivered[q] \o NewItems(queues, T2.queues, q)]
          /\ UNCHANGED <<sublog, pubsum, steplog, seen>>

TSubscribe == \E j \in Jobs : DoSubscribe(j, MaxQueues, pubcount)

TUnsubscribe == \E j \in Jobs, q \in DOMAIN queues : DoUnsubscribe(j, q, pubcount)

\* queue.get() by the queue's consumer
TGet == \E q \in DOMAIN queues :
    /\ queues[q] # <<>>
    /\ queues' = [queues EXCEPT ![q] = Tail(@)]
    /\ UNCHANGED <<subscribers, pubcount, sublog, published, delivered, pubsum, steplog, seen>>

TrackerNext ==
    \/ TPublish /\ UNCHANGED pipelineVars
    \/ TSubscribe /\ UNCHANGED pipelineVars
    \/ TUnsubscribe /\ UNCHANGED pipelineVars
    \/ TGet /\ UNCHANGED pipelineVars


(***************************************************************************)
(* NegotiationState (agents/state.py) as LangGraph channels.               *)
(* chan is a dict holding the keys whose channel has a value.  `errors`    *)
(* is reduced with operator.add and `agent_progress` with merge_dicts;     *)
(* every other key is a last-value channel, which takes one write a step.  *)
(***************************************************************************)
JobId == "jobX"

Nodes == {"parse", "supplier_summary_agent", "market_analysis_agent",
          "offer_analysis_agent", "outcome_assessment_agent", "action_items_agent"}
AgentNodes == Nodes \ {"parse"}

\* writes of a superstep are applied in the order of the node names
TaskOrder == <<"action_items_agent", "market_analysis_agent", "offer_analysis_agent",
               "outcome_assessment_agent", "parse", "supplier_summary_agent">>

\* the state key a node owns, which is also the `agent` of its events
AgentOf(n) ==
    CASE n = "parse" -> "parse"
      [] n = "supplier_summary_agent" -> "supplier_summary"
      [] n = "market_analysis_agent" -> "market_analysis"
      [] n = "offer_analysis_agent" -> "offer_analysis"
      [] n = "outcome_assessment_agent" -> "outcome_assessment"
      [] n = "action_items_agent" -> "action_items"

OutputSlots == {"parsed_input", "supplier_summary", "market_analysis", "offer_analysis",
                "outcome_assessment", "action_items"}
SlotOf(n) == IF n = "parse" THEN "parsed_input" ELSE AgentOf(n)

ReducerKeys == {"errors", "agent_progress"}

\* state.get(k) is truthy
Truthy(d, k) == k \in DOMAIN d /\ d[k] # ""

\* Optional[Dict]: a dict is a function from its keys; None is kept as the mapping
\* with the one key no dict has
None == [k \in {"<None>"} |-> 0]

\* a merge in which the left argument takes precedence
merge_dicts_left_wins(left, right) ==
    IF left = None THEN right
    ELSE IF right = None THEN left
    ELSE [k \in (DOMAIN left) \cup (DOMAIN right) |->
            IF k \in DOMAIN left THEN left[k] ELSE right[k]]

\* merge_dicts(left, right) (state.py lines 12-18): {**left, **right}
merge_dicts(left, right) ==
    IF left = None THEN right
    ELSE IF right = None THEN left
    ELSE [k \in (DOMAIN left) \cup (DOMAIN right) |->
            IF k \in DOMAIN right THEN right[k] ELSE left[k]]

EmptyDict == [k \in {} |-> ""]
NoUpdate == [ret |-> EmptyDict, alias |-> FALSE]

\* the update `return state` gives: every key of the node's view, the errors list by reference
FullState(view) == [ret |-> view, alias |-> TRUE]
\* the update a `return {...}` of chosen keys gives
Partial(d) == [ret |-> d, alias |-> FALSE]

\* state["errors"].append(msg): the node's state holds the channel's own list
AppendInPlace(c, msg) == [c EXCEPT !["errors"] = Append(@, msg)]

\* a merge in which errors takes the last write instead of being reduced
ApplyOne_replace_errors(c, u, shared) ==
    [k \in (DOMAIN c) \cup (DOMAIN u.ret) |->
        IF k \notin DOMAIN u.ret THEN c[k]
        ELSE IF k = "errors" THEN (IF u.alias THEN shared ELSE u.ret[k])
        ELSE IF k = "agent_progress" THEN merge_dicts(c[k], u.ret[k])
        ELSE u.ret[k]]

\* a merge in which agent_progress takes the last write instead of being reduced
ApplyOne_overwrite(c, u, shared) ==
    [k \in (DOMAIN c) \cup (DOMAIN u.ret) |->
        IF k \notin DOMAIN u.ret THEN c[k]
        ELSE IF k = "errors" THEN c[k] \o (IF u.alias THEN shared ELSE u.ret[k])
        ELSE u.ret[k]]

\* one node's returned update merged into the channels; shared is the content of the
\* list object the nodes' states alias
ApplyOne(c, u, shared) ==
    [k \in (DOMAIN c) \cup (DOMAIN u.ret) |->
        IF k \notin DOMAIN u.ret THEN c[k]
        ELSE IF k = "errors" THEN c[k] \o (IF u.alias THEN shared ELSE u.ret[k])
        ELSE IF k = "agent_progress" THEN merge_dicts(c[k], u.ret[k])
        ELSE u.ret[k]]

RECURSIVE ApplyInOrder(_, _, _, _)
ApplyInOrder(c, order, us, shared) ==
    IF order = <<>> THEN c
    ELSE ApplyInOrder(IF Head(order) \in DOMAIN us THEN ApplyOne(c, us[Head(order)], shared) ELSE c,
                      Tail(order), us, shared)

\* InvalidUpdateError: a last-value channel got more than one write in the step
Conflict(us) ==
    \E k \in UNION {DOMAIN us[n].ret : n \in DOMAIN us} :
        /\ k \notin ReducerKeys
        /\ Cardinality({n \in DOMAIN us : k \in DOMAIN us[n].ret}) > 1

(***************************************************************************)
(* agents/graph.py                                                         *)
(***************************************************************************)
should_continue_after_parse(state) ==
    IF "errors" \in DOMAIN state /\ Len(state["errors"]) > 0 THEN "end" ELSE "continue"

\* a scheduler that follows no edge once the state holds an error
Successors_failfast(n, state) ==
    IF Len(state["errors"]) > 0 THEN {}
    ELSE CASE n = "parse" -> {"supplier_summary_agent", "market_analysis_agent", "offer_analysis_agent"}
           [] n = "supplier_summary_agent" -> {}
           [] n = "market_analysis_agent" -> {"outcome_assessment_agent"}
           [] n = "offer_analysis_agent" -> {"outcome_assessment_agent"}
           [] n = "outcome_assessment_agent" -> {"action_items_agent"}
           [] n = "action_items_agent" -> {}

\* a graph with one more edge, from parse to outcome_assessment, so that
\* outcome_assessment is triggered in two different steps
Successors_early_edge(n, state) ==
    CASE n = "parse" ->
            (IF should_continue_after_parse(state) = "continue"
             THEN {"supplier_summary_agent"} ELSE {})
            \cup {"market_analysis_agent", "offer_analysis_agent", "outcome_assessment_agent"}
      [] n = "supplier_summary_agent" -> {}
      [] n = "market_analysis_agent" -> {"outcome_assessment_agent"}
      [] n = "offer_analysis_agent" -> {"outcome_assessment_agent"}
      [] n = "outcome_assessment_agent" -> {"action_items_agent"}
      [] n = "action_items_agent" -> {}

\* the nodes an edge leads to once n has finished (create_negotiation_graph)
Successors(n, state) ==
    CASE n = "parse" ->
            (IF should_continue_after_parse(state) = "continue"
             THEN {"supplier_summary_agent"} ELSE {})
            \cup {"market_analysis_agent", "offer_analysis_agent"}
      [] n = "supplier_summary_agent" -> {}
      [] n = "market_analysis_agent" -> {"outcome_assessment_agent"}
      [] n = "offer_analysis_agent" -> {"outcome_assessment_agent"}
      [] n = "outcome_assessment_agent" -> {"action_items_agent"}
      [] n = "action_items_agent" -> {}

\* negotiation_graph.ainvoke(initial_state): the schema's keys of the input are written
\* to their channels and the entry point is scheduled
GraphStart(input) ==
    /\ gstat' = "running"
    /\ chan' = input
    /\ active' = {"parse"}
    /\ npc' = [n \in Nodes |-> "idle"]
    /\ upd' = [n \in Nodes |-> NoUpdate]

\* a scheduler without the barrier: as soon as some node of the step has returned, its
\* update is applied and its edges are followed
GraphStep_eager ==
    /\ gstat = "running"
    /\ \E n \in active : npc[n] = "returned"
    /\ LET done == {n \in active : npc[n] = "returned"}
           us == [n \in done |-> upd[n]]
           c2 == ApplyInOrder(chan, TaskOrder, us, chan["errors"])
           next == (active \ done) \cup UNION {Successors(n, c2) : n \in done}
       IN IF Conflict(us)
          THEN /\ gstat' = "raised"
               /\ active' = {}
               /\ UNCHANGED chan
          ELSE /\ chan' = c2
               /\ active' = next
               /\ gstat' = IF next = {} THEN "finished" ELSE "running"
    /\ UNCHANGED <<npc, upd, entry, doc, inp, px, md, calls, rpc, briefings_store>>
    /\ UNCHANGED trackerVars

\* end of a superstep: every node of the step has returned; their updates are applied
\* and the edges decide the next step
GraphStep ==
    /\ gstat = "running"
    /\ active # {}
    /\ \A n \in active : npc[n] = "returned"
    /\ LET us == [n \in active |-> upd[n]]
           c2 == ApplyInOrder(chan, TaskOrder, us, chan["errors"])
           next == UNION {Successors(n, c2) : n \in active}
       IN IF Conflict(us)
          THEN /\ gstat' = "raised"
               /\ active' = {}
               /\ UNCHANGED chan
          ELSE /\ chan' = c2
               /\ active' = next
               /\ gstat' = IF next = {} THEN "finished" ELSE "running"
    /\ UNCHANGED <<npc, upd, entry, doc, inp, px, md, calls, rpc, briefings_store>>
    /\ UNCHANGED trackerVars

(***************************************************************************)
(* agents/parse.py                                                         *)
(***************************************************************************)
ParseError(c) ==
    IF ~Truthy(c, "supplier_offer_pdf") THEN "Missing supplier offer PDF text"
    ELSE IF ~Truthy(c, "initial_request_pdf") THEN "Missing initial request PDF text"
    ELSE IF ~Truthy(c, "form_data") THEN "Missing form data"
    ELSE IF c["form_data"] = "invalid" THEN "Invalid form data"
    ELSE ""

\* lines 153-183: build ParsedInput, set the state, publish completion, return state
ParseBuilt(c) ==
    [k \in (DOMAIN c) \cup {"parsed_input", "current_agent", "progress"} |->
        IF k = "parsed_input" THEN "ParsedInput"
        ELSE IF k = "current_agent" THEN "parse"
        ELSE IF k = "progress" THEN 15
        ELSE c[k]]

\* parse_node up to its first suspension point (or its return)
parse_start ==
    /\ gstat = "running" /\ "parse" \in active /\ npc["parse"] = "idle"
    /\ LET err == ParseError(chan) IN
       IF err # ""
       THEN /\ chan' = AppendInPlace(chan, err)
            /\ DoPublishSeq(chan["job_id"], <<Event("parse", "running", 5), Event("parse", "error", 10)>>)
            /\ upd' = [upd EXCEPT !["parse"] = FullState(AppendInPlace(chan, err))]
            /\ npc' = [npc EXCEPT !["parse"] = "returned"]
       ELSE IF Truthy(chan, "alternatives_pdf")
       THEN /\ DoPublishSeq(chan["job_id"], <<Event("parse", "running", 5), Event("parse", "running", 8),
                                              Event("parse", "running", 10)>>)
            /\ npc' = [npc EXCEPT !["parse"] = "extract"]
            /\ UNCHANGED <<chan, upd>>
       ELSE /\ DoPublishSeq(chan["job_id"], <<Event("parse", "running", 5), Event("parse", "running", 8),
                                              Event("parse", "running", 13), Event("parse", "completed", 15)>>)
            /\ upd' = [upd EXCEPT !["parse"] = FullState(ParseBuilt(chan))]
            /\ npc' = [npc EXCEPT !["parse"] = "returned"]
            /\ UNCHANGED chan
    /\ UNCHANGED <<entry, doc, inp, px, md, calls, rpc, gstat, active, briefings_store>>

\* extract_alternatives_from_pdf came back (ok) or raised (caught at line 143)
parse_extracted ==
    /\ gstat = "running" /\ "parse" \in active /\ npc["parse"] = "extract"
    /\ \E ok \in BOOLEAN :
        DoPublishSeq(chan["job_id"],
                     (IF ok THEN <<Event("parse", "running", 12)>> ELSE <<>>)
                     \o <<Event("parse", "running", 13), Event("parse", "completed", 15)>>)
    /\ upd' = [upd EXCEPT !["parse"] = FullState(ParseBuilt(chan))]
    /\ npc' = [npc EXCEPT !["parse"] = "returned"]
    /\ UNCHANGED <<entry, doc, inp, px, md, calls, rpc, gstat, active, chan, briefings_store>>

parse_node == parse_start \/ parse_extracted

(***************************************************************************)
(* agents/supplier_summary.py, market_analysis.py, offer_analysis.py,      *)
(* outcome_assessment.py, action_items.py: the five node functions share   *)
(* one shape.                                                              *)
(***************************************************************************)
ErrorPrefix(n) ==
    CASE n = "supplier_summary_agent" -> "Supplier summary error"
      [] n = "market_analysis_agent" -> "Market analysis error"
      [] n = "offer_analysis_agent" -> "Offer analysis error"
      [] n = "outcome_assessment_agent" -> "Outcome assessment error"
      [] n = "action_items_agent" -> "Action items error"

\* progress of the "researching" event
ResearchProgress(n) == IF n = "supplier_summary_agent" THEN 17 ELSE 18

\* publish "running" 0.15, then await asyncio.sleep(0.1)
agent_start(n) ==
    /\ gstat = "running" /\ n \in active /\ npc[n] = "idle"
    /\ DoPublish(chan["job_id"], Event(AgentOf(n), "running", 15))
    /\ npc' = [npc EXCEPT ![n] = "sleep"]
    /\ UNCHANGED <<entry, doc, inp, px, md, calls, rpc, gstat, active, upd, chan, briefings_store>>

\* after the sleep: parsed_input missing -> append in place and return state;
\* else publish "running" and await the Perplexity search
agent_wake(n) ==
    /\ gstat = "running" /\ n \in active /\ npc[n] = "sleep"
    /\ IF ~Truthy(chan, "parsed_input")
       THEN /\ chan' = AppendInPlace(chan, "Missing parsed_input")
            /\ upd' = [upd EXCEPT ![n] = FullState(AppendInPlace(chan, "Missing parsed_input"))]
            /\ npc' = [npc EXCEPT ![n] = "returned"]
            /\ UNCHANGED trackerVars
       ELSE /\ DoPublish(chan["job_id"], Event(AgentOf(n), "running", ResearchProgress(n)))
            /\ npc' = [npc EXCEPT ![n] = "search"]
            /\ UNCHANGED <<chan, upd>>
    /\ UNCHANGED <<entry, doc, inp, px, md, calls, rpc, gstat, active, briefings_store>>

\* the search came back (it never raises) with some result of success = True ("some")
\* or with none ("failed"): publish "running" 0.25, build research_context from the
\* successful results, await the LLM chain (followed: the history keeps the outcome)
AgentSearched(n, followed) ==
    /\ gstat = "running" /\ n \in active /\ npc[n] = "search"
    /\ DoPublish(chan["job_id"], Event(AgentOf(n), "running", 25))
    /\ npc' = [npc EXCEPT ![n] = "llm"]
    /\ \E r \in (IF followed THEN {"some", "failed"} ELSE {calls[n].search}) :
          calls' = [calls EXCEPT ![n].search = r]
    /\ UNCHANGED <<entry, doc, inp, px, md, rpc, gstat, active, upd, chan, briefings_store>>

agent_searched(n) == AgentSearched(n, FALSE)

\* what the node returns on success / from its except block
AgentSuccess(n) ==
    Partial([k \in {SlotOf(n), "agent_progress"} |->
                IF k = "agent_progress" THEN [a \in {AgentOf(n)} |-> 100] ELSE "payload"])
AgentFailure(n) == Partial([k \in {"errors"} |-> <<ErrorPrefix(n)>>])

\* a step that takes research without a successful result for an exception
StepResult_needs_research(n, search, ok) ==
    IF ok /\ search # "failed" THEN AgentSuccess(n) ELSE AgentFailure(n)

\* what the step returns once the search gave `search` and the LLM chain came back
\* (ok) or something in the try block raised: results of success = False are left out
\* of research_context and nothing else reads them
StepResult(n, search, ok) ==
    IF ok THEN AgentSuccess(n) ELSE AgentFailure(n)

\* the LLM chain came back (ok) or something in the try block raised
AgentLlm(n, followed) ==
    /\ gstat = "running" /\ n \in active /\ npc[n] = "llm"
    /\ \E ok \in BOOLEAN :
        LET res == StepResult(n, calls[n].search, ok) IN
        /\ IF res = AgentSuccess(n)
           THEN DoPublish(chan["job_id"], Event(AgentOf(n), "completed", 35))
           ELSE DoPublish(chan["job_id"], Event(AgentOf(n), "error", 15))
        /\ upd' = [upd EXCEPT ![n] = res]
        /\ calls' = IF followed
                    THEN [calls EXCEPT ![n].llm = IF ok THEN "ok" ELSE "raised"]
                    ELSE calls
    /\ npc' = [npc EXCEPT ![n] = "returned"]
    /\ UNCHANGED <<entry, doc, inp, px, md, rpc, gstat, active, chan, briefings_store>>

agent_llm(n) == AgentLlm(n, FALSE)

agent_node(n) == agent_start(n) \/ agent_wake(n) \/ agent_searched(n) \/ agent_llm(n)

\* the node functions with the outcomes of their calls followed
agent_node_followed(n) ==
    agent_start(n) \/ agent_wake(n) \/ AgentSearched(n, TRUE) \/ AgentLlm(n, TRUE)

supplier_summary_node == agent_node("supplier_summary_agent")
market_analysis_node == agent_node("market_analysis_agent")
offer_analysis_node == agent_node("offer_analysis_agent")
outcome_assessment_node == agent_node("outcome_assessment_agent")
action_items_node == agent_node("action_items_agent")


(***************************************************************************)
(* services/mas_pipeline.py and api/routes.py: the job runner.             *)
(* mas_pipeline.py line 5 imports store_briefing_in_vector_db, a name      *)
(* services/vector_store.py does not define; the runner is modelled as it  *)
(* is written, for a process in which that import resolves.                *)
(***************************************************************************)
SchemaKeys == {"document_id", "supplier_offer_pdf", "initial_request_pdf", "alternatives_pdf",
               "form_data", "parsed_input", "supplier_summary", "market_analysis",
               "offer_analysis", "outcome_assessment", "action_items", "current_agent",
               "errors", "progress", "agent_progress", "job_id"}

\* an input that carries every key of the schema, the ones not given set to None
MapInput_allkeys(d) ==
    [k \in SchemaKeys |->
        IF k \in DOMAIN d THEN d[k]
        ELSE IF k = "errors" THEN <<>>
        ELSE IF k = "agent_progress" THEN EmptyDict
        ELSE ""]

\* the input written to the channels: the keys the schema knows; the two reduced
\* channels start from their type's empty value
MapInput(d) ==
    [k \in ((DOMAIN d) \cap SchemaKeys) \cup ReducerKeys |->
        IF k \in DOMAIN d THEN d[k]
        ELSE IF k = "errors" THEN <<>> ELSE EmptyDict]

\* initial_state of run_mas_pipeline (lines 45-59)
InitialStateKeys == {"document_id", "raw_pdf_text", "extracted_data", "additional_context",
                     "normalized_goals", "deal_type", "research_results",
                     "identified_potentials", "final_briefing", "current_agent", "errors",
                     "progress", "job_id"}
initial_state ==
    [k \in InitialStateKeys |->
        IF k = "errors" THEN <<>>
        ELSE IF k = "progress" THEN 0
        ELSE IF k = "current_agent" THEN ""
        ELSE IF k = "job_id" THEN JobId
        ELSE IF k = "document_id" THEN "doc"
        ELSE IF k \in {"raw_pdf_text", "extracted_data", "additional_context"} THEN "given"
        ELSE "None"]

\* a NegotiationState built from the inputs i = [offer, request, form, alternatives]
NegotiationInput(i) ==
    [k \in {"document_id", "job_id", "current_agent", "errors", "progress"}
           \cup (IF i.offer THEN {"supplier_offer_pdf"} ELSE {})
           \cup (IF i.request THEN {"initial_request_pdf"} ELSE {})
           \cup (IF i.form # "missing" THEN {"form_data"} ELSE {})
           \cup (IF i.alternatives THEN {"alternatives_pdf"} ELSE {}) |->
        IF k = "errors" THEN <<>>
        ELSE IF k = "progress" THEN 0
        ELSE IF k = "current_agent" THEN ""
        ELSE IF k = "job_id" THEN JobId
        ELSE IF k = "document_id" THEN "doc"
        ELSE IF k = "form_data" THEN i.form
        ELSE "text"]

\* no perplexity_search / merge_dicts call is being followed
NoSearch == [st |-> "idle"]
NoMerge == [st |-> "idle"]

NoCalls == [n \in Nodes |-> [search |-> "none", llm |-> "none"]]

NoInputs == [offer |-> FALSE, request |-> FALSE, form |-> "missing", alternatives |-> FALSE]
Inputs == [offer : BOOLEAN, request : BOOLEAN, form : {"missing", "invalid", "valid"},
           alternatives : BOOLEAN]

\* an except block that stores the job as completed
StoreException_completed ==
    briefings_store' = DictSet(briefings_store, JobId,
        [k \in {"status", "briefing", "vector_db_id"} |->
            IF k = "status" THEN "completed"
            ELSE IF k = "briefing" THEN "{}"
            ELSE "None"])

\* the except block of run_mas_pipeline (lines 128-145)
StoreException ==
    briefings_store' = DictSet(briefings_store, JobId,
        [k \in {"status", "briefing", "error", "vector_db_id"} |->
            IF k = "status" THEN "error"
            ELSE IF k = "briefing" THEN "{}"
            ELSE IF k = "error" THEN "str(e)"
            ELSE "None"])
\* an except block that only logs
HandleException_logonly ==
    /\ UNCHANGED briefings_store
    /\ UNCHANGED trackerVars

HandleException ==
    /\ StoreException
    /\ DoPublish(JobId, Event("system", "error", 0))

\* run_pipeline_wrapper (routes.py lines 140-173): run_mas_pipeline is called with the
\* keywords supplier_offer_pdf, initial_request_pdf, alternatives_pdf and form_data,
\* which its signature (job_id, document_id, additional_context) does not take; the
\* TypeError is caught and logged at line 169
run_pipeline_wrapper ==
    /\ entry = "wrapper" /\ rpc = "call"
    /\ rpc' = "done"
    /\ UNCHANGED <<entry, doc, inp, px, md, calls, gstat, active, npc, upd, chan, briefings_store>>
    /\ UNCHANGED trackerVars

\* run_mas_pipeline(job_id, document_id, additional_context) up to the await of ainvoke
run_mas_pipeline_start ==
    /\ entry = "direct" /\ rpc = "call"
    /\ IF doc = "absent"
       THEN \* lines 30-38
            /\ DoPublish(JobId, Event("system", "error", 0))
            /\ rpc' = "done"
            /\ UNCHANGED <<gstat, active, npc, upd, chan, briefings_store>>
       ELSE IF doc = "uploaded"
       THEN \* line 42: the record upload_pdf stores has no "extracted_data"
            /\ HandleException
            /\ rpc' = "done"
            /\ UNCHANGED <<gstat, active, npc, upd, chan>>
       ELSE \* lines 45-73
            /\ DoPublish(JobId, Event("system", "running", 0))
            /\ GraphStart(MapInput(initial_state))
            /\ rpc' = "await"
            /\ UNCHANGED briefings_store
    /\ UNCHANGED <<entry, doc, inp, px, md, calls>>

\* a runner that never looks at final_state's errors
HasErrors_never(final_state) == FALSE

\* line 76: final_state.get("errors") and len(final_state["errors"]) > 0
HasErrors(final_state) ==
    "errors" \in DOMAIN final_state /\ Len(final_state["errors"]) > 0

\* run_mas_pipeline once ainvoke has returned final_state or raised
run_mas_pipeline_finish ==
    /\ entry = "direct" /\ rpc = "await"
    /\ gstat \in {"finished", "raised"}
    /\ IF gstat = "raised"
       THEN HandleException
       ELSE IF HasErrors(chan)
       THEN \* lines 76-90
            /\ briefings_store' = DictSet(briefings_store, JobId,
                  [k \in {"status", "briefing", "errors", "vector_db_id"} |->
                      IF k = "status" THEN "error"
                      ELSE IF k = "briefing" THEN "{}"
                      ELSE IF k = "errors" THEN chan["errors"]
                      ELSE "None"])
            /\ DoPublish(JobId, Event("system", "error",
                                      IF "progress" \in DOMAIN chan THEN chan["progress"] ELSE 0))
       ELSE IF "final_briefing" \notin DOMAIN chan
       THEN \* line 98: final_state["final_briefing"] raises KeyError
            HandleException
       ELSE \* lines 96-125
            /\ briefings_store' = DictSet(briefings_store, JobId,
                  [k \in {"status", "briefing", "vector_db_id"} |->
                      IF k = "status" THEN "completed"
                      ELSE IF k = "briefing" THEN chan["final_briefing"]
                      ELSE JobId])
            /\ DoPublish(JobId, Event("system", "completed", 100))
    /\ rpc' = "done"
    /\ UNCHANGED <<entry, doc, inp, px, md, calls, gstat, active, npc, upd, chan>>

\* negotiation_graph.ainvoke(state) on a NegotiationState built from the job's inputs
graph_invoke ==
    /\ entry = "graph" /\ rpc = "call"
    /\ GraphStart(MapInput(NegotiationInput(inp)))
    /\ rpc' = "await"
    /\ UNCHANGED <<entry, doc, inp, px, md, calls, briefings_store>>
    /\ UNCHANGED trackerVars

\* GET /briefing/{job_id} (routes.py get_briefing): the response built from the
\* stored record: a BriefingResult of briefing, status, vector_db_id and
\* stored_to_pinecone, or 404
get_briefing(store, job_id) ==
    IF job_id \notin DOMAIN store THEN [http |-> 404]
    ELSE LET rec == store[job_id] IN
         [http |-> 200,
          briefing |-> IF "briefing" \in DOMAIN rec THEN rec["briefing"] ELSE "None",
          status |-> IF "status" \in DOMAIN rec THEN rec["status"] ELSE "pending",
          vector_db_id |-> IF "vector_db_id" \in DOMAIN rec /\ rec["vector_db_id"] # "None"
                           THEN rec["vector_db_id"] ELSE job_id,
          stored_to_pinecone |-> FALSE]

(***************************************************************************)
(* api/routes.py stream_progress: the SSE relay of one job's events        *)
(***************************************************************************)
\* event_generator starts: queue = progress_tracker.subscribe(job_id)
stream_open ==
    /\ DoSubscribe(JobId, MaxStreams, 0)
    /\ UNCHANGED pipelineVars

\* what the relay sends when queue.get() times out after 30 s
KeepAlive == [status |-> "keepalive"]

\* queue.get() returned an event: it is sent; a terminal event ends the loop and the
\* finally block unsubscribes (logged: the history keeps the list of what was sent)
StreamEvent(logged) == \E q \in DOMAIN queues :
    /\ Live(q)
    /\ queues[q] # <<>>
    /\ LET item == Head(queues[q])
           T1 == [subscribers |-> subscribers, queues |-> [queues EXCEPT ![q] = Tail(@)]]
           T2 == IF IsTerminal(item.ev) THEN unsubscribe(T1, sublog[q].job, q) ELSE T1
       IN /\ subscribers' = T2.subscribers
          /\ queues' = T2.queues
          /\ seen' = [seen EXCEPT ![q] =
                        [count |-> IF @.count < 2 THEN @.count + 1 ELSE 2,
                         last |-> item.ev.progress,
                         decreased |-> @.decreased \/ (@.count > 0 /\ item.ev.progress < @.last),
                         ended |-> IsTerminal(item.ev),
                         log |-> IF logged THEN Append(@.log, item.ev) ELSE @.log]]
          /\ sublog' = IF IsTerminal(item.ev)
                       THEN [sublog EXCEPT ![q].to = 0] ELSE sublog
    /\ UNCHANGED <<pubcount, published, delivered, pubsum, steplog>>
    /\ UNCHANGED pipelineVars

stream_event == StreamEvent(FALSE)

\* the client goes away: the generator is closed and the finally block unsubscribes
stream_close == \E q \in DOMAIN queues :
    /\ Live(q)
    /\ DoUnsubscribe(sublog[q].job, q, 0)
    /\ UNCHANGED pipelineVars

(***************************************************************************)
(* The pipeline for one job                                                *)
(***************************************************************************)
Init ==
    /\ TrackerInit
    /\ entry \in {"wrapper", "direct", "graph"}
    /\ doc \in {"absent", "uploaded", "extracted"}
    /\ entry # "direct" => doc = "uploaded"
    /\ inp \in Inputs
    /\ calls = NoCalls
    /\ px = NoSearch
    /\ md = NoMerge
    /\ entry # "graph" => inp = NoInputs
    /\ rpc = "call"
    /\ gstat = "idle"
    /\ active = {}
    /\ npc = [n \in Nodes |-> "idle"]
    /\ upd = [n \in Nodes |-> NoUpdate]
    /\ chan = EmptyDict
    /\ briefings_store = [j \in {} |-> EmptyDict]

Next ==
    \/ run_pipeline_wrapper
    \/ run_mas_pipeline_start
    \/ run_mas_pipeline_finish
    \/ graph_invoke
    \/ GraphStep
    \/ parse_node
    \/ supplier_summary_node
    \/ market_analysis_node
    \/ offer_analysis_node
    \/ outcome_assessment_node
    \/ action_items_node

Spec == Init /\ [][Next]_vars

\* the pipeline with progress streams open on the job
NextStream ==
    \/ Next
    \/ stream_open
    \/ stream_event
    \/ stream_close

SpecStream == Init /\ [][NextStream]_vars

(***************************************************************************)
(* The graph run on valid inputs, with the outcome of every step's web     *)
(* research and LLM call followed.                                         *)
(***************************************************************************)
InitResearch ==
    /\ Init
    /\ entry = "graph"
    /\ inp.offer /\ inp.request /\ inp.form = "valid"

NextResearch ==
    \/ graph_invoke
    \/ GraphStep
    \/ parse_node
    \/ \E n \in AgentNodes : agent_node_followed(n)

SpecResearch == InitResearch /\ [][NextResearch]_vars

(***************************************************************************)
(* utils/perplexity.py perplexity_search: one call, the HTTP attempts      *)
(* answered by any sequence of responses.                                  *)
(***************************************************************************)
MaxRetries == 3     \* the largest max_retries a call is made with (the default is 3)

\* what one HTTP attempt can give: status 200 with a body the function can read,
\* status 200 with a body that makes response.json() or the extraction raise,
\* status 429, another status, requests.exceptions.Timeout, another exception
Responses == {"200", "200_unreadable", "429", "other_status", "timeout", "exception"}

\* the HTTP status line of a response, where there is one
Is200(r) == r \in {"200", "200_unreadable"}

\* an attempt that takes every status for a success
AttemptOutcome_any_status(attempt, max_retries, r) ==
    IF r \in {"200", "429", "other_status"} THEN "success"
    ELSE IF attempt < max_retries - 1 THEN "retry"
    ELSE "failure"

\* one pass of the loop body (lines 52-134) for attempt number `attempt` (from 0):
\* return a success record, go round again, or return a failure record
AttemptOutcome(attempt, max_retries, r) ==
    IF r = "200" THEN "success"
    ELSE IF r = "429" THEN "retry"                     \* lines 88-93: sleep, continue
    ELSE IF attempt < max_retries - 1 THEN "retry"     \* lines 99, 112, 125: sleep(1), continue
    ELSE "failure"

SearchCalls ==
    {[st |-> "loop", max_retries |-> m, responses |-> rs, attempt |-> 0, made |-> 0,
      success |-> FALSE] : m \in 0..MaxRetries, rs \in [1..MaxRetries -> Responses]}

\* for attempt in range(max_retries): one HTTP attempt and what follows from it
perplexity_search_attempt ==
    /\ px.st = "loop"
    /\ px.attempt < px.max_retries
    /\ LET out == AttemptOutcome(px.attempt, px.max_retries, px.responses[px.attempt + 1]) IN
       px' = [px EXCEPT !.made = @ + 1,
                        !.attempt = IF out = "retry" THEN @ + 1 ELSE @,
                        !.st = IF out = "retry" THEN "loop" ELSE "returned",
                        !.success = (out = "success")]
    /\ UNCHANGED <<entry, doc, inp, md, calls, rpc, gstat, active, npc, upd, chan, briefings_store>>
    /\ UNCHANGED trackerVars

\* the loop ran out (lines 136-142): "Failed after {max_retries} attempts"
perplexity_search_exhausted ==
    /\ px.st = "loop"
    /\ px.attempt >= px.max_retries
    /\ px' = [px EXCEPT !.st = "returned", !.success = FALSE]
    /\ UNCHANGED <<entry, doc, inp, md, calls, rpc, gstat, active, npc, upd, chan, briefings_store>>
    /\ UNCHANGED trackerVars

perplexity_search == perplexity_search_attempt \/ perplexity_search_exhausted

InitSearch ==
    /\ TrackerInit
    /\ entry = "wrapper" /\ doc = "uploaded" /\ inp = NoInputs
    /\ calls = NoCalls
    /\ px \in SearchCalls
    /\ md = NoMerge
    /\ rpc = "call" /\ gstat = "idle" /\ active = {}
    /\ npc = [n \in Nodes |-> "idle"]
    /\ upd = [n \in Nodes |-> NoUpdate]
    /\ chan = EmptyDict
    /\ briefings_store = [j \in {} |-> EmptyDict]

NextSearch ==
    \/ perplexity_search_attempt
    \/ perplexity_search_exhausted

SpecSearch == InitSearch /\ [][NextSearch]_vars

(***************************************************************************)
(* agents/state.py merge_dicts: one call on any two arguments.             *)
(***************************************************************************)
ProgressKeys == {"supplier_summary", "market_analysis", "offer_analysis"}
ProgressValues == {50, 100}

\* the dicts over those keys, and None
OptDicts == {None} \cup UNION {[K -> ProgressValues] : K \in SUBSET ProgressKeys}

merge_dicts_call ==
    /\ md.st = "call"
    /\ md' = [md EXCEPT !.st = "returned", !.out = merge_dicts(md.left, md.right)]
    /\ UNCHANGED <<entry, doc, inp, px, calls, rpc, gstat, active, npc, upd, chan, briefings_store>>
    /\ UNCHANGED trackerVars

InitMerge ==
    /\ TrackerInit
    /\ entry = "wrapper" /\ doc = "uploaded" /\ inp = NoInputs
    /\ calls = NoCalls
    /\ px = NoSearch
    /\ md \in {[st |-> "call", left |-> l, right |-> r, out |-> None] : l \in OptDicts, r \in OptDicts}
    /\ rpc = "call" /\ gstat = "idle" /\ active = {}
    /\ npc = [n \in Nodes |-> "idle"]
    /\ upd = [n \in Nodes |-> NoUpdate]
    /\ chan = EmptyDict
    /\ briefings_store = [j \in {} |-> EmptyDict]

NextMerge == merge_dicts_call

SpecMerge == InitMerge /\ [][NextMerge]_vars

(***************************************************************************)
(* run_mas_pipeline on its own: the graph run is replaced by any result       *)
(* ainvoke can hand back, a final state or an exception.                      *)
(***************************************************************************)
MaxErrors == 2      \* messages in the errors list of a final state

ErrorMessages == {"Missing parsed_input", ErrorPrefix("market_analysis_agent"),
                  ErrorPrefix("offer_analysis_agent")}
ErrorLists == UNION {[1..n -> ErrorMessages] : n \in 0..MaxErrors}

\* a final state: errors, the progress parse left (0.0 or 0.15), and a final_briefing
\* or none
FinalState(errs, progress, briefing) ==
    [k \in {"job_id", "document_id", "errors", "progress"}
           \cup (IF briefing THEN {"final_briefing"} ELSE {}) |->
        IF k = "errors" THEN errs
        ELSE IF k = "progress" THEN progress
        ELSE IF k = "job_id" THEN JobId
        ELSE IF k = "document_id" THEN "doc"
        ELSE "briefing"]
FinalStates == {FinalState(e, p, b) : e \in ErrorLists, p \in {0, 15}, b \in BOOLEAN}

\* await negotiation_graph.ainvoke(initial_state) comes back
ainvoke_returns ==
    /\ entry = "direct" /\ rpc = "await" /\ gstat = "running"
    /\ \/ \E fs \in FinalStates : chan' = fs /\ gstat' = "finished"
       \/ gstat' = "raised" /\ UNCHANGED chan
    /\ active' = {}
    /\ UNCHANGED <<npc, upd, entry, doc, inp, px, md, calls, rpc, briefings_store>>
    /\ UNCHANGED trackerVars

InitRunner == Init /\ entry = "direct"

NextRunner ==
    \/ run_mas_pipeline_start
    \/ ainvoke_returns
    \/ run_mas_pipeline_finish

SpecRunner == InitRunner /\ [][NextRunner]_vars

(***************************************************************************)
(* stream_progress on its own: one job's relay fed by any sequence of      *)
(* events, with the receive timeout.                                       *)
(***************************************************************************)
MaxKeepalives == 1  \* receive timeouts of one stream

RelayEvents == {Event("system", "running", 0), Event("parse", "completed", 15),
                Event("parse", "error", 10), Event("system", "completed", 100)}

\* some part of the pipeline publishes an event for the job
relay_publish == \E e \in RelayEvents :
    /\ pubcount < MaxPublish
    /\ LET item == [n |-> pubcount + 1, job |-> JobId, ev |-> e]
           T2 == publish(Tracker, JobId, item)
       IN /\ subscribers' = T2.subscribers
          /\ queues' = T2.queues
          /\ pubcount' = pubcount + 1
          /\ published' = Append(published, [job |-> JobId, ev |-> e])
          /\ delivered' = [q \in DOMAIN delivered |-> delivered[q] \o NewItems(queues, T2.queues, q)]
          /\ UNCHANGED <<sublog, pubsum, steplog, seen>>
    /\ UNCHANGED pipelineVars

stream_event_logged == StreamEvent(TRUE)

\* asyncio.wait_for(queue.get(), timeout=30.0) timed out on an empty queue: a
\* keepalive is sent and the loop goes on
stream_keepalive == \E q \in DOMAIN queues :
    /\ Live(q)
    /\ queues[q] = <<>>
    /\ Cardinality({i \in DOMAIN seen[q].log : seen[q].log[i] = KeepAlive}) < MaxKeepalives
    /\ seen' = [seen EXCEPT ![q].log = Append(@, KeepAlive)]
    /\ UNCHANGED <<subscribers, queues, pubcount, sublog, published, delivered, pubsum, steplog>>
    /\ UNCHANGED pipelineVars

NextRelay ==
    \/ relay_publish
    \/ stream_open
    \/ stream_event_logged
    \/ stream_keepalive
    \/ stream_close

\* the broadcaster on its own leaves the pipeline where it starts
InitTracker ==
    /\ TrackerInit
    /\ entry = "wrapper" /\ doc = "uploaded" /\ inp = NoInputs
    /\ calls = NoCalls
    /\ px = NoSearch
    /\ md = NoMerge
    /\ rpc = "call" /\ gstat = "idle" /\ active = {}
    /\ npc = [n \in Nodes |-> "idle"]
    /\ upd = [n \in Nodes |-> NoUpdate]
    /\ chan = EmptyDict
    /\ briefings_store = [j \in {} |-> EmptyDict]

SpecTracker == InitTracker /\ [][TrackerNext]_vars

SpecRelay == InitTracker /\ [][NextRelay]_vars

(***************************************************************************)
(* Streams on two jobs together with direct calls of unsubscribe, for any  *)
(* job and any queue, removed ones included.                               *)
(***************************************************************************)
\* event_generator starts for some job
stream_open_any ==
    /\ \E j \in Jobs : DoSubscribe(j, MaxQueues, 0)
    /\ UNCHANGED pipelineVars

\* unsubscribe(job_id, queue) called with any job and any queue created so far
unsubscribe_any ==
    /\ \E j \in Jobs, q \in DOMAIN queues : DoUnsubscribe(j, q, 0)
    /\ UNCHANGED pipelineVars

\* an event, terminal or not, is published for some job
publish_any == \E j \in Jobs, e \in {Event("system", "running", 0), Event("system", "error", 0)} :
    /\ pubcount < MaxPublish
    /\ LET T2 == publish(Tracker, j, [n |-> pubcount + 1, job |-> j, ev |-> e])
       IN /\ subscribers' = T2.subscribers
          /\ queues' = T2.queues
          /\ pubcount' = pubcount + 1
          /\ UNCHANGED <<sublog, published, delivered, pubsum, steplog, seen>>
    /\ UNCHANGED pipelineVars

NextUnsubscribe ==
    \/ publish_any
    \/ stream_open_any
    \/ stream_event
    \/ stream_close
    \/ unsubscribe_any

SpecUnsubscribe == InitTracker /\ [][NextUnsubscribe]_vars

(***************************************************************************)
(* Properties of the graph and the job runner                              *)
(***************************************************************************)
\* the step n has returned with an error appended to `errors`
Failed(n) ==
    /\ npc[n] = "returned"
    /\ "errors" \in DOMAIN upd[n].ret
    /\ upd[n].ret["errors"] # <<>>

\* the steps with an edge into b, and the steps b depends on directly or transitively
NoErrors == [errors |-> <<>>]
Pred(b) == {a \in Nodes : b \in Successors(a, NoErrors)}
Upstream(b) ==
    LET p1 == Pred(b)
        p2 == p1 \cup UNION {Pred(a) : a \in p1}
        p3 == p2 \cup UNION {Pred(a) : a \in p2}
    IN p3 \cup UNION {Pred(a) : a \in p3}

GraphEnded == gstat \in {"finished", "raised"}

\* C1: once market_analysis, offer_analysis or outcome_assessment has returned with an
\* error appended to `errors`, no step that depends on it, directly or transitively,
\* ever starts running (outcome_assessment and action_items stay where they are).
C1_ErrorHaltsDependents ==
    \A a \in {"market_analysis_agent", "offer_analysis_agent", "outcome_assessment_agent"},
       b \in Nodes :
        (a \in Upstream(b) /\ Failed(a)) => npc[b] = "idle"

\* C2: once parse has returned with a validation error, none of supplier_summary,
\* market_analysis, offer_analysis, outcome_assessment or action_items ever starts.
C2_ParseErrorStopsPipeline ==
    Failed("parse") => \A n \in AgentNodes : npc[n] = "idle"

\* C3: a job run without supplier offer text ends with a stored record of status
\* "error" whose errors list is exactly <<"Missing supplier offer PDF text">>, and
\* exactly one event of status "error" has been published for it.
C3_MissingOfferOneError ==
    (entry = "direct" /\ doc = "extracted" /\ rpc = "done") =>
        /\ JobId \in DOMAIN briefings_store
        /\ briefings_store[JobId]["status"] = "error"
        /\ "errors" \in DOMAIN briefings_store[JobId]
        /\ briefings_store[JobId]["errors"] = <<"Missing supplier offer PDF text">>
        /\ pubsum.errors = 1

\* C4: when the graph run has ended and some step a failed, every other step b that
\* neither failed itself nor depends on a failed step has run to completion and its
\* output slot holds its payload in the final state.
C4_IndependentBranchCompletes ==
    GraphEnded =>
        \A a \in Nodes : \A b \in Nodes \ {a} :
            (Failed(a) /\ \A u \in Upstream(b) \cup {b} : ~Failed(u)) =>
                /\ npc[b] = "returned"
                /\ SlotOf(b) \in DOMAIN chan
                /\ chan[SlotOf(b)] = (IF b = "parse" THEN "ParsedInput" ELSE "payload")

\* supplier_summary failed, market_analysis and offer_analysis went on to succeed and
\* the graph ran to its end
C4_Witness ==
    /\ gstat = "finished"
    /\ Failed("supplier_summary_agent")
    /\ upd["market_analysis_agent"] = AgentSuccess("market_analysis_agent")
    /\ upd["offer_analysis_agent"] = AgentSuccess("offer_analysis_agent")
    /\ "market_analysis" \in DOMAIN chan
    /\ "offer_analysis" \in DOMAIN chan

\* C5: once the job runner is through with a started job, briefings_store holds a
\* record for the job whose status is "completed" or "error".
C5_TerminalRecordStored ==
    rpc = "done" =>
        /\ JobId \in DOMAIN briefings_store
        /\ briefings_store[JobId]["status"] \in {"completed", "error"}

\* C6: once the job runner is through with a started job, a terminal progress event
\* (progress 1.0 or status "error") has been published for the job.
C6_TerminalEventPublished ==
    rpc = "done" => pubsum.terminal >= 1

\* C7: the progress values of the events one stream has sent on never decrease, and
\* a stream that ran to the terminal event of a completed job ended on 1.0.
C7_ProgressMonotone ==
    \A q \in DOMAIN seen :
        /\ ~seen[q].decreased
        /\ (/\ seen[q].ended
            /\ JobId \in DOMAIN briefings_store
            /\ briefings_store[JobId]["status"] = "completed") => seen[q].last = 100

(***************************************************************************)
(* Properties of the broadcaster                                           *)
(***************************************************************************)
\* the publish count up to which queue q was (or still is) subscribed
WindowEnd(q) == IF sublog[q].to = NoEnd THEN pubcount ELSE sublog[q].to

\* the items of publish calls lo+1 .. hi made for job j, in publish order
RECURSIVE ItemsFor(_, _, _)
ItemsFor(j, lo, hi) ==
    IF hi <= lo THEN <<>>
    ELSE ItemsFor(j, lo, hi - 1)
         \o (IF published[hi].job = j
             THEN <<[n |-> hi, job |-> j, ev |-> published[hi].ev]>> ELSE <<>>)

\* C8: every item ever put into a subscriber's queue was published for the job the
\* subscriber subscribed to, whatever the interleaving of the calls.
C8_NoCrossTalk ==
    \A q \in DOMAIN delivered :
        \A i \in DOMAIN delivered[q] : delivered[q][i].job = sublog[q].job

\* a queue subscribed to one job has received an event while an event for the other
\* job was published during its subscription
C8_Witness ==
    \E q \in DOMAIN delivered :
        /\ delivered[q] # <<>>
        /\ \E i \in DOMAIN published :
            /\ published[i].job # sublog[q].job
            /\ sublog[q].from < i /\ i <= WindowEnd(q)

\* C9: what has been put into a subscriber's queue is exactly the events published
\* for its job between its subscribe and its unsubscribe, each once, in publish order.
C9_ExactlyOnceInOrder ==
    \A q \in DOMAIN delivered :
        delivered[q] = ItemsFor(sublog[q].job, sublog[q].from, WindowEnd(q))

\* two queues were subscribed to the same job while two events were published for it,
\* and one of them has since unsubscribed
C9_Witness ==
    \E q1 \in DOMAIN delivered, q2 \in DOMAIN delivered :
        /\ q1 # q2
        /\ sublog[q1].job = sublog[q2].job
        /\ Len(delivered[q1]) = 2 /\ Len(delivered[q2]) = 2
        /\ sublog[q1].to # NoEnd

\* nothing published before a queue subscribed is ever put into it
NoReplay ==
    \A q \in DOMAIN delivered :
        /\ \A i \in DOMAIN delivered[q] : delivered[q][i].n > sublog[q].from
        /\ (\A i \in DOMAIN published :
                published[i].job = sublog[q].job => i <= sublog[q].from)
           => delivered[q] = <<>>

\* a publish call for a job that is not a key of subscribers changes neither
\* subscribers nor any queue
DroppedPublish ==
    (pubcount' = pubcount + 1 /\ published'[pubcount'].job \notin DOMAIN subscribers)
        => (subscribers' = subscribers /\ queues' = queues)

\* C10: an event published while its job has no subscriber is dropped: a queue that
\* subscribes after the job's last event receives nothing, and the publish call
\* leaves subscribers and queues as they were.
C10_DroppedWithoutSubscriber == []NoReplay /\ [][DroppedPublish]_vars

\* an event was published for a job nobody was subscribed to, and a queue that
\* subscribed to the job afterwards is still empty
C10_Witness ==
    \E q \in DOMAIN sublog :
        /\ Cardinality(DOMAIN sublog) = 1
        /\ sublog[q].from >= 1
        /\ \A i \in DOMAIN published : published[i].job = sublog[q].job
        /\ pubcount = sublog[q].from
        /\ delivered[q] = <<>>
        /\ subscribers = DictSet([j \in {} |-> <<>>], sublog[q].job, <<q>>)

(***************************************************************************)
(* Properties of the state merge                                           *)
(***************************************************************************)
\* the steps of the tier after parse, and the orders they can be run in one by one
Tier1 == Successors("parse", NoErrors)
Orders(S) == {o \in [1..Cardinality(S) -> S] : \A i, j \in DOMAIN o : i # j => o[i] # o[j]}

\* the superstep of the tier ends: all three have returned and their updates are merged
Tier1Merge ==
    /\ gstat = "running" /\ active = Tier1
    /\ \A n \in active : npc[n] = "returned"
    /\ active' # active

\* the state after running the tier's steps one after another in order o, each update
\* merged before the next step runs
RunInOrder(o) == ApplyInOrder(chan, o, [n \in active |-> upd[n]], chan["errors"])

\* a list as a bag: how often each message occurs
BagOf(list) == [m \in Range(list) |-> Cardinality({i \in DOMAIN list : list[i] = m})]

ReturnsOutputOrError(n) ==
    \/ SlotOf(n) \in DOMAIN upd[n].ret /\ ~Failed(n)
    \/ Failed(n)

\* C13: whatever fails inside a step, the step returns its output or an update that
\* appends an error message, and the graph run goes on: ainvoke never raises.
C13_NoExceptionEscapes ==
    /\ \A n \in Nodes : npc[n] = "returned" => ReturnsOutputOrError(n)
    /\ gstat # "raised"

\* C14: a step that has started has published a first event of status "running", and
\* a step that has returned has published a last event of status "completed" or
\* "error", on every return path.
C14_FirstAndLastEvent ==
    \A n \in Nodes :
        /\ npc[n] # "idle" => steplog[AgentOf(n)].first = "running"
        /\ npc[n] = "returned" => steplog[AgentOf(n)].last \in {"completed", "error"}

\* C15: outcome_assessment has not started unless market_analysis and offer_analysis
\* have both returned, and action_items has not started unless outcome_assessment
\* has returned: a step has left "idle" only when every step with an edge into it
\* has returned.
C15_WaitsForAllPredecessors ==
    \A b \in Nodes : npc[b] # "idle" => \A a \in Pred(b) : npc[a] = "returned"

\* outcome_assessment is under way after both of its predecessors returned, and
\* action_items has not started yet
C15_Witness ==
    /\ npc["outcome_assessment_agent"] \in {"sleep", "search", "llm"}
    /\ npc["market_analysis_agent"] = "returned"
    /\ npc["offer_analysis_agent"] = "returned"
    /\ npc["action_items_agent"] = "idle"

(***************************************************************************)
(* Properties of the job runner's results                                  *)
(***************************************************************************)
\* C16: when the graph run raised, run_mas_pipeline returns normally, having stored a
\* record of status "error" for the job and published an event of status "error" as
\* its last event.
C16_GraphExceptionHandled ==
    (entry = "direct" /\ gstat = "raised" /\ rpc = "done") =>
        /\ JobId \in DOMAIN briefings_store
        /\ briefings_store[JobId]["status"] = "error"
        /\ steplog["system"].last = "error"
        /\ pubsum.terminal >= 1

\* ainvoke raised and run_mas_pipeline has returned
C16_Witness ==
    /\ entry = "direct" /\ gstat = "raised" /\ rpc = "done"
    /\ JobId \in DOMAIN briefings_store

\* the job went through run_mas_pipeline and failed: its steps reported errors or an
\* exception was raised on the way
JobFailed ==
    /\ entry = "direct" /\ rpc = "done" /\ doc # "absent"
    /\ \/ gstat \in {"idle", "raised"}
       \/ gstat = "finished" /\ chan["errors"] # <<>>

\* C17: polling a failed job answers with status "error" together with the list of
\* error messages the job accumulated.
C17_PollReturnsErrors ==
    JobFailed =>
        LET r == get_briefing(briefings_store, JobId) IN
        /\ r.http = 200
        /\ r.status = "error"
        /\ "errors" \in DOMAIN r
        /\ gstat # "idle" => r["errors"] = chan["errors"]

\* C18: a job whose final errors list is non-empty is stored with status "error",
\* never "completed", and no event with progress 1.0 is published for it.
C18_ErrorsNeverCompleted ==
    (rpc = "done" /\ gstat = "finished" /\ chan["errors"] # <<>>) =>
        /\ JobId \in DOMAIN briefings_store
        /\ briefings_store[JobId]["status"] = "error"
        /\ pubsum.full = 0
        /\ steplog["system"].last = "error"

\* the graph handed back a final state with errors and with a final_briefing, and
\* the runner is through
C18_Witness ==
    /\ rpc = "done" /\ gstat = "finished"
    /\ Len(chan["errors"]) = 2
    /\ "final_briefing" \in DOMAIN chan
    /\ JobId \in DOMAIN briefings_store

(***************************************************************************)
(* Properties of the errors list                                           *)
(***************************************************************************)
IsPrefix(s1, s2) == Len(s1) <= Len(s2) /\ SubSeq(s2, 1, Len(s1)) = s1

\* a step of the graph run ends and the updates of its nodes are merged
StepMerge ==
    /\ gstat = "running" /\ active # {}
    /\ \A n \in active : npc[n] = "returned"
    /\ gstat' # "raised"
    /\ (active' # active \/ gstat' # gstat)

\* C19: every step of the job leaves the errors list it found as a prefix of the new
\* one, and when the updates of nodes that ran concurrently are merged, every message
\* they returned is in the new list.
C19_ErrorsOnlyGrow ==
    [][/\ ("errors" \in DOMAIN chan) =>
            ("errors" \in DOMAIN chan' /\ IsPrefix(chan["errors"], chan'["errors"]))
       /\ StepMerge =>
            \A n \in active : "errors" \in DOMAIN upd[n].ret =>
                /\ Range(upd[n].ret["errors"]) \subseteq Range(chan'["errors"])
                /\ ~upd[n].alias =>
                      Len(chan'["errors"]) >= Len(chan["errors"])
                          + Cardinality({m \in active : Failed(m)})]_vars

\* market_analysis and offer_analysis failed in the same step, outcome_assessment
\* failed after them, and the list holds the three messages
C19_Witness ==
    /\ "errors" \in DOMAIN chan
    /\ chan["errors"] = <<ErrorPrefix("market_analysis_agent"),
                          ErrorPrefix("offer_analysis_agent"),
                          ErrorPrefix("outcome_assessment_agent")>>

(***************************************************************************)
(* Properties of the progress stream                                       *)
(***************************************************************************)
\* the events among what stream q has sent
EventsSent(q) == SelectSeq(seen[q].log, LAMBDA x : x # KeepAlive)

\* the events stream q has taken from its queue so far
EventsTaken(q) ==
    [i \in 1..(Len(delivered[q]) - Len(queues[q])) |-> delivered[q][i].ev]

Terminal(e) == e.progress = 100 \/ e.status = "error"

\* the stream's loop is over: it has unsubscribed
Over(q) == sublog[q].to # NoEnd

\* what stream q has sent is the events it took from its queue, in order; none but
\* the last is terminal; and once the last is terminal the stream is over
RelayForwardsUntilTerminal ==
    \A q \in DOMAIN seen :
        /\ EventsSent(q) = EventsTaken(q)
        /\ \A i \in DOMAIN EventsSent(q) : i < Len(EventsSent(q)) => ~Terminal(EventsSent(q)[i])
        /\ (EventsSent(q) # <<>> /\ Terminal(EventsSent(q)[Len(EventsSent(q))])) =>
              (Over(q) /\ \A j \in DOMAIN subscribers : q \notin Range(subscribers[j]))

\* a step that sends a keepalive leaves the stream subscribed and its loop running
KeepaliveGoesOn ==
    \A q \in DOMAIN seen :
        (q \in DOMAIN seen' /\ seen'[q].log = Append(seen[q].log, KeepAlive)) =>
            /\ sublog'[q].to = NoEnd
            /\ subscribers' = subscribers

\* C20: the progress stream sends on every event it takes from its queue, ends right
\* after the first event with progress 1.0 or status "error", and does not end on a
\* keepalive.
C20_StreamEndsOnTerminal == []RelayForwardsUntilTerminal /\ [][KeepaliveGoesOn]_vars

\* a stream sent a keepalive and then an event of status "error", after which it
\* ended with a further event left in its queue
C20_Witness ==
    \E q \in DOMAIN seen :
        /\ seen[q].log = <<KeepAlive, Event("parse", "error", 10)>>
        /\ Over(q) /\ seen[q].ended
        /\ queues[q] # <<>>

(***************************************************************************)
(* Properties of a stalled subscriber                                      *)
(***************************************************************************)
\* a publish call returns having appended its event to the queue of every subscriber
\* of the job, whatever the queues already hold
PublishReachesAll ==
    pubcount' = pubcount + 1 =>
        LET j == published'[pubcount'].job
            item == [n |-> pubcount', job |-> j, ev |-> published'[pubcount'].ev]
        IN j \in DOMAIN subscribers =>
              \A q \in Range(subscribers[j]) : queues'[q] = Append(queues[q], item)

\* C21: a subscriber that never reads its queue does not block publish: the call
\* completes and puts the event into the queue of every subscriber of the job,
\* however many unread events the stalled subscriber's queue holds.
C21_StalledSubscriberDoesNotBlock == [][PublishReachesAll]_vars

\* two queues are subscribed to one job; the first has never been read and holds
\* every event published, the second has received them all and been read
C21_Witness ==
    \E j \in DOMAIN subscribers :
        /\ Len(subscribers[j]) = 2
        /\ LET q1 == subscribers[j][1]
               q2 == subscribers[j][2]
           IN /\ queues[q1] = delivered[q1] /\ Len(queues[q1]) = MaxPublish
              /\ Len(delivered[q2]) = MaxPublish /\ queues[q2] = <<>>

(***************************************************************************)
(* Properties of a step whose web research failed                          *)
(***************************************************************************)
\* every research call of step n came back with success = False and its LLM call
\* succeeded, and the step has returned
ResearchFailedLlmOk(n) ==
    /\ npc[n] = "returned"
    /\ calls[n].search = "failed"
    /\ calls[n].llm = "ok"

\* C22: a step whose web-research calls all failed while its LLM call succeeded has
\* returned its output slot and no `errors` entry and has published "completed";
\* once the graph run has ended its slot holds the payload, none of its messages is
\* in `errors`, and every step that depends on it has run.
C22_ResearchFailureIsNotAnError ==
    \A n \in AgentNodes :
        ResearchFailedLlmOk(n) =>
            /\ upd[n] = AgentSuccess(n)
            /\ "errors" \notin DOMAIN upd[n].ret
            /\ steplog[AgentOf(n)].last = "completed"
            /\ gstat = "finished" =>
                  /\ chan[SlotOf(n)] = "payload"
                  /\ ErrorPrefix(n) \notin Range(chan["errors"])
                  /\ \A b \in Nodes : n \in Upstream(b) => npc[b] = "returned"

\* market_analysis got no research result, its LLM call succeeded, and the run went
\* on through outcome_assessment and action_items to its end without an error
C22_Witness ==
    /\ gstat = "finished"
    /\ ResearchFailedLlmOk("market_analysis_agent")
    /\ calls["action_items_agent"].search = "failed"
    /\ upd["action_items_agent"] = AgentSuccess("action_items_agent")
    /\ chan["errors"] = <<>>
    /\ chan["market_analysis"] = "payload"

(***************************************************************************)
(* Properties of perplexity_search                                         *)
(***************************************************************************)
\* the responses the attempts made so far were answered with
AttemptsMade == SubSeq(px.responses, 1, px.made)

\* never more than max_retries attempts, and the call is in its loop or has returned
BoundedAttempts ==
    /\ px.st \in {"loop", "returned"}
    /\ px.made <= px.max_retries
    /\ px.st = "loop" => px.attempt <= px.max_retries

\* C23 as stated: at most max_retries attempts, no attempt after the first response
\* of status 200, always a result record, and success = True exactly when some
\* attempt was answered with status 200.
C23_StopsAtFirst200 ==
    /\ BoundedAttempts
    /\ \A i \in 1..px.made : Is200(AttemptsMade[i]) => i = px.made
    /\ px.st = "returned" =>
          (px.success <=> \E i \in 1..px.made : Is200(AttemptsMade[i]))

\* C23, amended: at most max_retries attempts, no attempt after the first response of
\* status 200 whose body the function can read, always a result record, and
\* success = True exactly when some attempt was answered that way; a 200 with an
\* unreadable body counts as any other exception.
C23_StopsAtFirstReadable200 ==
    /\ BoundedAttempts
    /\ \A i \in 1..px.made : AttemptsMade[i] = "200" => i = px.made
    /\ px.st = "returned" =>
          /\ px.success <=> \E i \in 1..px.made : AttemptsMade[i] = "200"
          /\ ~px.success =>
                \/ px.made = px.max_retries
                \/ px.max_retries <= 0

\* a call with max_retries = 3 was rate-limited, then got a 200 with an unreadable
\* body, then a 200, and returned success after its third attempt
C23_Witness ==
    /\ px.st = "returned"
    /\ px.max_retries = 3
    /\ AttemptsMade = <<"429", "200_unreadable", "200">>
    /\ px.success

(***************************************************************************)
(* Properties of polling a job                                             *)
(***************************************************************************)
\* C24: from the moment the job runner starts the graph run, briefings_store holds a
\* record for the job, so that polling it answers with a status of "pending",
\* "running", "completed" or "error" and not with 404.
C24_PendingRecordBeforeGraph ==
    (entry = "direct" /\ gstat # "idle") =>
        LET r == get_briefing(briefings_store, JobId) IN
        /\ r.http = 200
        /\ r.status \in {"pending", "running", "completed", "error"}

(***************************************************************************)
(* Properties of unsubscribe                                               *)
(***************************************************************************)
\* the jobs whose subscriber list holds queue q
JobsOf(subs, q) == {j \in DOMAIN subs : q \in Range(subs[j])}

\* unsubscribe(j, q) called in the present state: it touches no queue's content and
\* no other job's list, takes q and only q out of j's list, keeping the order of the
\* rest, deletes j's entry when nothing is left, and changes nothing when q is not
\* in j's list; a second call changes nothing
UnsubscribeFrame(j, q) ==
    LET T2 == unsubscribe(Tracker, j, q) IN
    /\ T2.queues = queues
    /\ \A k \in DOMAIN subscribers \ {j} :
          k \in DOMAIN T2.subscribers /\ T2.subscribers[k] = subscribers[k]
    /\ DOMAIN T2.subscribers \subseteq DOMAIN subscribers
    /\ IF j \in DOMAIN subscribers /\ q \in Range(subscribers[j])
       THEN LET rest == SelectSeq(subscribers[j], LAMBDA r : r # q) IN
            IF rest = <<>> THEN j \notin DOMAIN T2.subscribers
            ELSE j \in DOMAIN T2.subscribers /\ T2.subscribers[j] = rest
       ELSE T2 = Tracker
    /\ unsubscribe(T2, j, q) = T2

\* no job maps to an empty subscriber list, and no queue is listed twice
NoEmptyList ==
    /\ \A j \in DOMAIN subscribers : subscribers[j] # <<>>
    /\ \A q \in DOMAIN queues : Cardinality(JobsOf(subscribers, q)) <= 1

\* a stream whose loop is running has its queue in its job's list; a stream that has
\* ended, on a terminal event or because the consumer went away, has it in no list
EndedStreamUnsubscribed ==
    \A q \in DOMAIN sublog :
        /\ Live(q) => JobsOf(subscribers, q) = {sublog[q].job}
        /\ ~Live(q) => JobsOf(subscribers, q) = {}
        /\ seen[q].ended => ~Live(q)

\* C25: unsubscribe removes exactly the given queue and leaves every other subscriber
\* of any job registered; the entry of a job whose last queue is removed is deleted,
\* so that no job maps to an empty list; unsubscribing a queue that is already
\* removed changes nothing; and a stream that has ended, by terminal event or by the
\* consumer going away, has unsubscribed its queue.
C25_UnsubscribeRemovesExactlyOne ==
    /\ \A j \in Jobs : \A q \in DOMAIN queues : UnsubscribeFrame(j, q)
    /\ NoEmptyList
    /\ EndedStreamUnsubscribed

\* two streams were open on one job; one ended on a terminal event, which deleted
\* nothing but its own queue, and the other is still subscribed
C25_Witness ==
    \E q1 \in DOMAIN sublog : \E q2 \in DOMAIN sublog :
        /\ q1 # q2 /\ sublog[q1].job = sublog[q2].job
        /\ seen[q1].ended /\ ~Live(q1)
        /\ Live(q2)
        /\ subscribers = DictSet([j \in {} |-> <<>>], sublog[q2].job, <<q2>>)

(***************************************************************************)
(* Properties of merge_dicts                                               *)
(***************************************************************************)
\* the keys of an argument (None has none)
KeysOf(d) == IF d = None THEN {} ELSE DOMAIN d

\* C26: merge_dicts returns the other argument when one is None; otherwise the
\* result has the keys of both, a key of both with the right argument's value and
\* every other key with the value it had; for arguments with no key in common the
\* result is the same in either order and keeps every entry of both.
C26_MergeDictsRightWinsDisjointCommutes ==
    md.st = "returned" =>
        /\ md.left = None => md.out = md.right
        /\ md.right = None => md.out = md.left
        /\ (md.left # None /\ md.right # None) =>
              /\ DOMAIN md.out = (DOMAIN md.left) \cup (DOMAIN md.right)
              /\ \A k \in DOMAIN md.right : md.out[k] = md.right[k]
              /\ \A k \in (DOMAIN md.left) \ (DOMAIN md.right) : md.out[k] = md.left[k]
        /\ KeysOf(md.left) \cap KeysOf(md.right) = {} =>
              /\ md.out = merge_dicts(md.right, md.left)
              /\ \A k \in KeysOf(md.left) : md.out[k] = md.left[k]

\* two dicts that share a key with different values and have a key each of their
\* own have been merged
C26_Witness ==
    /\ md.st = "returned"
    /\ md.left = [k \in {"supplier_summary", "market_analysis"} |-> 50]
    /\ md.right = [k \in {"market_analysis", "offer_analysis"} |-> 100]
    /\ md.out["market_analysis"] = 100

(***************************************************************************)
(* Properties of a completed job                                           *)
(***************************************************************************)
\* every step ran and succeeded: each node has returned its own slot and the state
\* holds a value in all six output slots
AllStepsSucceeded ==
    /\ \A n \in Nodes : npc[n] = "returned" /\ ~Failed(n)
    /\ \A k \in OutputSlots : Truthy(chan, k)

StoredCompleted ==
    /\ JobId \in DOMAIN briefings_store
    /\ briefings_store[JobId]["status"] = "completed"

EventsOfOneRun == 6 + 4 * Cardinality(AgentNodes)

\* every node put on a new step has not run before, and a node that has started
\* never starts over while the graph runs
StartsOnce ==
    /\ active' # active => \A n \in active' : npc[n] = "idle"
    /\ gstat = "running" =>
          \A n \in Nodes :
              /\ npc[n] # "idle" => npc'[n] # "idle"
              /\ npc[n] = "returned" => (npc'[n] = "returned" /\ upd'[n] = upd[n])

\* C28: each step of the graph runs at most once per job: a node is scheduled only
\* while it has never run, whatever order the nodes before it finish in, so
\* outcome_assessment runs once and not once for each of its two incoming edges,
\* and one graph run publishes no more events than one run of every step makes.
C28_EachStepRunsOnce ==
    /\ [][StartsOnce]_vars
    /\ [](entry = "graph" => pubcount <= EventsOfOneRun)

\* the run has finished with every step succeeded; outcome_assessment ran after its
\* two predecessors and the run published what one run of every step publishes
C28_Witness ==
    /\ entry = "graph" /\ gstat = "finished"
    /\ \A n \in Nodes : npc[n] = "returned" /\ ~Failed(n)
    /\ ~Truthy(chan, "alternatives_pdf")
    /\ pubcount = 4 + 4 * Cardinality(AgentNodes)

(***************************************************************************)
(* Properties of the end of a job                                          *)
(***************************************************************************)
\* briefings_store holds a record of terminal status for the job
TerminalRecord ==
    /\ JobId \in DOMAIN briefings_store
    /\ briefings_store[JobId]["status"] \in {"completed", "error"}

StepsPending ==
    \/ gstat = "running"
    \/ rpc \in {"call", "await"}

\* stream q ends in this step on a terminal event
EndsOnTerminal(q) ==
    /\ q \in DOMAIN seen' /\ ~seen[q].ended /\ seen'[q].ended

\* C30: at the moment a progress stream of a job run by the job runner ends on an
\* event with status "error" or progress 1.0, no step of the job is running or yet
\* to run and briefings_store holds the job's terminal record.
C30_StreamEndsOnlyWhenJobOver ==
    [][\A q \in DOMAIN seen :
          (entry = "direct" /\ EndsOnTerminal(q)) => (~StepsPending /\ TerminalRecord)]_vars

====
